---- MODULE Spec2Model ----
(***************************************************************************)
(* PhishShield: text normalizer, rule engine, scorer, reputation service   *)
(* and its TTL cache, as state machines.                                   *)
(*                                                                         *)
(* A Python str is a sequence of one-character strings.  Three code points *)
(* that have no ASCII spelling are written by name:                        *)
(*   ZWSP  U+200B zero width space                                         *)
(*   IDOT  U+0130 latin capital letter I with dot above                    *)
(*   CDOT  U+0307 combining dot above                                      *)
(* Offsets are 0-based as in Python; None is the string "None".            *)
(***************************************************************************)
EXTENDS Integers, Sequences, FiniteSets, TLC

VARIABLES
    call,       \* a direct call of a pure function: name, argument, return value
    pack,       \* the rule pack document RuleEngine.from_yaml reads
    text,       \* the analyzed text (Analyzer.analyze: text)
    ctx,        \* AnalysisContext handed to RuleEngine.match
    engine,     \* RuleEngine: _compiled, _max_evidence_per_rule
    haystack,   \* last value returned by normalize_for_matching
    hits,       \* last value returned by RuleEngine.match
    result,     \* last value returned by score_to_result / Analyzer.analyze
    phase,      \* position of the sequential pipeline
    enabled,    \* UrlReputationService.enabled
    now,        \* time.time()
    cache,      \* TTLCache._data, in dict insertion order
    th,         \* per worker thread: position and locals of analyze / lookup_domain
    netCalls,   \* number of HTTP requests sent so far
    vt          \* what the reputation API answers per domain; None: anything, any time

vars == <<call, pack, text, ctx, engine, haystack, hits, result, phase,
          enabled, now, cache, th, netCalls, vt>>

\* vt never changes: it is in both groups
pipeVars == <<call, pack, text, ctx, engine, haystack, hits, result, phase, vt>>
repVars == <<enabled, now, cache, th, netCalls, vt>>

\* Python's None: as a str-typed value (label), as a str (a sequence) and as an object
None == "None"
NoneStr == <<"None">>
NoneObj == [none |-> TRUE]

\* no direct call is under way
NoCall == [fn |-> None, arg |-> NoneObj, ret |-> NoneObj, done |-> FALSE]

\* ---------------------------------------------------------------- bounds
MaxLen == 3
MaxHits == 3
MaxTime == 4800
TickStep == 1200
MaxNet == 3
MaxRules == 2
MaxRaw == 200

\* ------------------------------------------------------- python str model
ZWSP == "ZWSP"
IDOT == "IDOT"
CDOT == "CDOT"

_ZERO_WIDTH == {ZWSP}

Min(a, b) == IF a <= b THEN a ELSE b
Max(a, b) == IF a >= b THEN a ELSE b

\* str.lower() of one character: U+0130 lowers to the two characters i, U+0307
LowerChar(ch) ==
    IF ch = "A" THEN <<"a">>
    ELSE IF ch = IDOT THEN <<"i", CDOT>>
    ELSE <<ch>>

RECURSIVE Lower(_)
Lower(s) == IF s = <<>> THEN <<>> ELSE LowerChar(Head(s)) \o Lower(Tail(s))

\* s[a:b] for 0 <= a, 0 <= b: Python clamps both ends to len(s)
Slice(s, a, b) == SubSeq(s, Min(a, Len(s)) + 1, Min(b, Len(s)))

StartsWithAt(s, needle, i) ==
    /\ i + Len(needle) <= Len(s)
    /\ \A k \in 1..Len(needle) : s[i + k] = needle[k]

\* str.find(needle, start): lowest 0-based index >= start, or -1
Find(s, needle, start) ==
    LET cand == {i \in start..Len(s) : StartsWithAt(s, needle, i)}
    IN  IF cand = {} THEN -1 ELSE CHOOSE i \in cand : \A j \in cand : i <= j

RECURSIVE LStrip(_)
LStrip(s) == IF s # <<>> /\ Head(s) = " " THEN LStrip(Tail(s)) ELSE s

RECURSIVE RStrip(_)
RStrip(s) == IF s # <<>> /\ s[Len(s)] = " " THEN RStrip(SubSeq(s, 1, Len(s) - 1)) ELSE s

\* str.strip(): the zero-width characters are not whitespace to Python
Strip(s) == RStrip(LStrip(s))

\* ------------------------------------------------------------ text_norm.py
normalize_for_matching(t) ==
    IF t = <<>> THEN <<>>
    ELSE Lower([i \in 1..Len(t) |-> IF t[i] \in _ZERO_WIDTH THEN " " ELSE t[i]])

\* ------------------------------------------------------------ types.py
Severities == {"low", "medium", "high"}
Actions == {"allow", "report", "verify_out_of_band", "block"}

\* Evidence: the model validator rejects end < start (ValueError)
Evidence(kind, pattern, match, start, end, snippet, label) ==
    [kind |-> kind, pattern |-> pattern, match |-> match, start |-> start,
     end |-> end, snippet |-> snippet, label |-> label]

RuleHit(rule_id, title, weight, severity, action, evidence) ==
    [rule_id |-> rule_id, title |-> title, weight |-> weight,
     severity |-> severity, action |-> action, evidence |-> evidence]

TextHighlight(start, end, rule_id, label) ==
    [start |-> start, end |-> end, rule_id |-> rule_id, label |-> label]

RulePattern(type, value, flags, label) ==
    [type |-> type, value |-> value, flags |-> flags, label |-> label]

RuleWhen(match, any_keywords, regex, patterns) ==
    [match |-> match, any_keywords |-> any_keywords, regex |-> regex,
     patterns |-> patterns]

\* Rule: explain and tags are copied through unchanged and are left out
Rule(id, title, weight, severity, when, action, isEnabled) ==
    [id |-> id, title |-> title, weight |-> weight, severity |-> severity,
     when |-> when, action |-> action, enabled |-> isEnabled]

\* ------------------------------------------------------- rule_engine.py
\* _compile_flags: None -> IGNORECASE | MULTILINE, otherwise only the letters given
_compile_flags(flags) ==
    IF flags = NoneStr THEN {"i", "m"}
    ELSE {Lower(<<flags[k]>>)[1] : k \in 1..Len(flags)} \cap {"i", "m", "s"}

\* re.compile on the regex sources the rule packs of this model use:
\* a run of letters is a literal, <letter>* is a starred letter, anything
\* else (an unbalanced parenthesis) raises re.error
Letters == {"a", "b", "A", "i"}
re_compile(value, flags) ==
    IF \A k \in 1..Len(value) : value[k] \in Letters
        THEN [ok |-> TRUE, kind |-> "lit", lit |-> value, icase |-> "i" \in flags]
    ELSE IF Len(value) = 2 /\ value[1] \in Letters /\ value[2] = "*"
        THEN [ok |-> TRUE, kind |-> "star", lit |-> <<value[1]>>, icase |-> "i" \in flags]
    ELSE [ok |-> FALSE]

\* the simple lower-case mapping re uses under IGNORECASE
ReFold(ch) == IF ch = "A" THEN "a" ELSE IF ch = IDOT THEN "i" ELSE ch

ReCharEq(rx, pc, tc) == IF rx.icase THEN ReFold(pc) = ReFold(tc) ELSE pc = tc

_snippet(t, start, end) ==
    LET window == 48
        left == Max(0, start - window)
        right == Min(Len(t), end + window)
        prefix == IF left > 0 THEN <<"...">> ELSE <<>>
        suffix == IF right < Len(t) THEN <<"...">> ELSE <<>>
    IN  prefix \o Slice(t, left, right) \o suffix

_CompiledPattern(raw, kind, keyword, regex) ==
    [raw |-> raw, kind |-> kind, keyword |-> keyword, regex |-> regex]

\* the RulePattern list _compile_rule builds from any_keywords, regex, patterns
RECURSIVE KeywordPatterns(_)
KeywordPatterns(kws) ==
    IF kws = <<>> THEN <<>>
    ELSE (IF Strip(Head(kws)) # <<>>
            THEN <<RulePattern("keyword", Strip(Head(kws)), NoneStr, "keyword")>>
            ELSE <<>>) \o KeywordPatterns(Tail(kws))

RECURSIVE RegexPatterns(_)
RegexPatterns(rgs) ==
    IF rgs = <<>> THEN <<>>
    ELSE (IF Strip(Head(rgs)) # <<>>
            THEN <<RulePattern("regex", Strip(Head(rgs)), NoneStr, "regex")>>
            ELSE <<>>) \o RegexPatterns(Tail(rgs))

CompilePattern(p) ==
    IF p.type = "keyword"
        THEN [ok |-> TRUE, cp |-> _CompiledPattern(p, "keyword", Lower(p.value), NoneObj)]
    ELSE LET rx == re_compile(p.value, _compile_flags(p.flags))
         IN  IF rx.ok THEN [ok |-> TRUE, cp |-> _CompiledPattern(p, "regex", NoneStr, rx)]
             ELSE [ok |-> FALSE]

\* _compile_rule: ok = FALSE stands for RulePackError
_compile_rule(rule) ==
    LET patterns == KeywordPatterns(rule.when.any_keywords)
                    \o RegexPatterns(rule.when.regex) \o rule.when.patterns
        compiled == [k \in 1..Len(patterns) |-> CompilePattern(patterns[k])]
    IN  IF \E k \in 1..Len(compiled) : ~compiled[k].ok THEN [ok |-> FALSE]
        ELSE IF compiled = <<>> THEN [ok |-> FALSE]
        ELSE [ok |-> TRUE, rule |-> rule, match_mode |-> rule.when.match,
              patterns |-> [k \in 1..Len(compiled) |-> compiled[k].cp]]

\* every rule kept, enabled or not
SelectAll(rules) == rules
SelectEnabled(rules) == SelectSeq(rules, LAMBDA r : r.enabled)

\* RuleEngine.__init__: ok = FALSE when a rule raised RulePackError
RuleEngineInit(rules, max_evidence_per_rule) ==
    LET kept == SelectEnabled(rules)
        compiled == [k \in 1..Len(kept) |-> _compile_rule(kept[k])]
    IN  [ok |-> \A k \in 1..Len(compiled) : compiled[k].ok,
         _rules |-> kept,
         _max_evidence_per_rule |-> Max(1, max_evidence_per_rule),
         _compiled |-> compiled]

\* _find_keyword: occurrences in the normalized text, offsets reused on the original
RECURSIVE FindKeywordFrom(_, _, _, _, _, _, _)
FindKeywordFrom(t, hay, needle, label, pattern, start, count) ==
    LET idx == Find(hay, needle, start)
        end == idx + Len(needle)
        ev == Evidence("keyword", pattern, Slice(t, idx, end), idx, end,
                       _snippet(t, idx, end), label)
    IN  IF idx = -1 THEN <<>>
        ELSE IF count + 1 >= 8 THEN <<ev>>
        ELSE <<ev>> \o FindKeywordFrom(t, hay, needle, label, pattern, end, count + 1)

_find_keyword(t, hay, needle, label, pattern) ==
    IF needle = <<>> THEN <<>>
    ELSE FindKeywordFrom(t, hay, needle, label, pattern, 0, 0)

\* length of the match of rx at 0-based position pos of t, or -1
ReMatchLen(rx, t, pos) ==
    IF rx.kind = "lit"
        THEN IF /\ pos + Len(rx.lit) <= Len(t)
                /\ \A k \in 1..Len(rx.lit) : ReCharEq(rx, rx.lit[k], t[pos + k])
             THEN Len(rx.lit) ELSE -1
    ELSE LET run == {n \in 0..(Len(t) - pos) :
                        \A k \in 1..n : ReCharEq(rx, rx.lit[1], t[pos + k])}
         IN  CHOOSE n \in run : \A m \in run : m <= n

\* _find_regex: rx.finditer(text), zero-length matches skipped, at most 10
RECURSIVE FindRegexFrom(_, _, _, _, _, _)
FindRegexFrom(t, rx, label, pattern, pos, count) ==
    IF pos > Len(t) THEN <<>>
    ELSE LET n == ReMatchLen(rx, t, pos)
             ev == Evidence("regex", pattern, Slice(t, pos, pos + n), pos, pos + n,
                            _snippet(t, pos, pos + n), label)
         IN  IF n <= 0 THEN FindRegexFrom(t, rx, label, pattern, pos + 1, count)
             ELSE IF count + 1 >= 10 THEN <<ev>>
             ELSE <<ev>> \o FindRegexFrom(t, rx, label, pattern, pos + n, count + 1)

_find_regex(t, rx, label, pattern) == FindRegexFrom(t, rx, label, pattern, 0, 0)

_match_one(cp, t, hay) ==
    IF cp.kind = "keyword"
        THEN _find_keyword(t, hay, cp.keyword, cp.raw.label, cp.raw.value)
    ELSE IF cp.kind = "regex"
        THEN _find_regex(t, cp.regex, cp.raw.label, cp.raw.value)
    ELSE <<>>

_to_hit(rule, evidence) ==
    RuleHit(rule.id, rule.title, rule.weight, rule.severity, rule.action, evidence)

\* match mode "all": one evidence per pattern, stop at the first pattern that
\* does not match, and stop once the per-rule evidence cap is reached
RECURSIVE AllLoop(_, _, _, _, _, _)
AllLoop(cps, k, evidence, t, hay, cap) ==
    IF k > Len(cps) THEN [ok |-> TRUE, evidence |-> evidence]
    ELSE LET ev == _match_one(cps[k], t, hay)
         IN  IF ev = <<>> THEN [ok |-> FALSE, evidence |-> evidence]
             ELSE IF Len(evidence) + 1 >= cap
                 THEN [ok |-> TRUE, evidence |-> Append(evidence, ev[1])]
             ELSE AllLoop(cps, k + 1, Append(evidence, ev[1]), t, hay, cap)

\* match mode "any", inner loop: append the evidence of one pattern up to the cap
RECURSIVE AnyInner(_, _, _)
AnyInner(ev, evidence, cap) ==
    IF ev = <<>> THEN evidence
    ELSE IF Len(evidence) + 1 >= cap THEN Append(evidence, Head(ev))
    ELSE AnyInner(Tail(ev), Append(evidence, Head(ev)), cap)

\* the loop over the patterns without its `break` at the cap
RECURSIVE AnyLoopNoBreak(_, _, _, _, _, _)
AnyLoopNoBreak(cps, k, evidence, t, hay, cap) ==
    IF k > Len(cps) THEN evidence
    ELSE AnyLoopNoBreak(cps, k + 1, AnyInner(_match_one(cps[k], t, hay), evidence, cap),
                        t, hay, cap)

RECURSIVE AnyLoop(_, _, _, _, _, _)
AnyLoop(cps, k, evidence, t, hay, cap) ==
    IF k > Len(cps) THEN evidence
    ELSE LET acc == AnyInner(_match_one(cps[k], t, hay), evidence, cap)
         IN  IF Len(acc) >= cap THEN acc
             ELSE AnyLoop(cps, k + 1, acc, t, hay, cap)

\* the hits of one compiled rule: a sequence of zero or one RuleHit
RuleHits(cr, t, hay, cap) ==
    IF cr.match_mode = "all"
        THEN LET r == AllLoop(cr.patterns, 1, <<>>, t, hay, cap)
             IN  IF r.ok /\ r.evidence # <<>> THEN <<_to_hit(cr.rule, r.evidence)>>
                 ELSE <<>>
    ELSE LET evidence == AnyLoop(cr.patterns, 1, <<>>, t, hay, cap)
         IN  IF evidence # <<>> THEN <<_to_hit(cr.rule, evidence)>> ELSE <<>>

RECURSIVE YamlHits(_, _, _, _, _)
YamlHits(compiled, k, t, hay, cap) ==
    IF k > Len(compiled) THEN <<>>
    ELSE RuleHits(compiled[k], t, hay, cap) \o YamlHits(compiled, k + 1, t, hay, cap)

\* --------------------------------------------------------- extractors.py
_SHORTENER_DOMAINS ==
    {<<"b", "i", "t", ".", "l", "y">>,
     <<"t", ".", "c", "o">>,
     <<"t", "i", "n", "y", "u", "r", "l", ".", "c", "o", "m">>,
     <<"g", "o", "o", ".", "g", "l">>,
     <<"o", "w", ".", "l", "y">>,
     <<"i", "s", ".", "g", "d">>,
     <<"b", "u", "f", "f", ".", "l", "y">>,
     <<"c", "u", "t", "t", ".", "l", "y">>,
     <<"r", "e", "b", "r", "a", "n", "d", ".", "l", "y">>,
     <<"s", "h", "o", "r", "t", "u", "r", "l", ".", "a", "t">>}

WWW == <<"w", "w", "w", ".">>

StripWww(d) == IF StartsWithAt(d, WWW, 0) THEN SubSeq(d, 5, Len(d)) ELSE d

is_shortener_domain(domain) == StripWww(Lower(Strip(domain))) \in _SHORTENER_DOMAINS

is_punycode_domain(domain) == Find(Lower(domain), <<"x", "n", "-", "-">>, 0) # -1

\* number of non-empty dot-separated labels
subdomain_count(domain) ==
    LET d == Lower(domain)
    IN  Cardinality({k \in 1..Len(d) : d[k] # "." /\ (k = 1 \/ d[k - 1] = ".")})

\* ------------------------------------------------------------- scoring.py
\* int(round(100 * (1 - math.exp(-raw_points / 35)))) for raw_points 0..186;
\* the value is 100 from 186 on
ScoreTable ==
    <<
      0, 3, 6, 8, 11, 13, 16, 18, 20, 23, 25, 27, 29, 31, 33, 35,
      37, 38, 40, 42, 44, 45, 47, 48, 50, 51, 52, 54, 55, 56, 58, 59,
      60, 61, 62, 63, 64, 65, 66, 67, 68, 69, 70, 71, 72, 72, 73, 74,
      75, 75, 76, 77, 77, 78, 79, 79, 80, 80, 81, 81, 82, 82, 83, 83,
      84, 84, 85, 85, 86, 86, 86, 87, 87, 88, 88, 88, 89, 89, 89, 90,
      90, 90, 90, 91, 91, 91, 91, 92, 92, 92, 92, 93, 93, 93, 93, 93,
      94, 94, 94, 94, 94, 94, 95, 95, 95, 95, 95, 95, 95, 96, 96, 96,
      96, 96, 96, 96, 96, 96, 97, 97, 97, 97, 97, 97, 97, 97, 97, 97,
      97, 97, 98, 98, 98, 98, 98, 98, 98, 98, 98, 98, 98, 98, 98, 98,
      98, 98, 98, 99, 99, 99, 99, 99, 99, 99, 99, 99, 99, 99, 99, 99,
      99, 99, 99, 99, 99, 99, 99, 99, 99, 99, 99, 99, 99, 99, 99, 99,
      99, 99, 99, 99, 99, 99, 99, 99, 99, 99, 100
    >>

\* the sign of the exponent lost: 1 - e^(raw_points/35) is never positive and
\* the clamp makes it 0
normalize_score_sign(raw_points) == 0

normalize_score(raw_points) ==
    LET r == Max(0, raw_points)
        score == IF r + 1 <= Len(ScoreTable) THEN ScoreTable[r + 1] ELSE 100
    IN  Max(0, Min(100, score))

severity_from_score(score) ==
    IF score >= 70 THEN "high" ELSE IF score >= 30 THEN "medium" ELSE "low"

_ACTION_PRIORITY ==
    [a \in Actions |-> CASE a = "allow" -> 0 [] a = "report" -> 1
                         [] a = "verify_out_of_band" -> 2 [] a = "block" -> 3]

_SEVERITY_ORDER ==
    [s \in Severities |-> CASE s = "low" -> 0 [] s = "medium" -> 1 [] s = "high" -> 2]

RECURSIVE StrongestAction(_, _)
StrongestAction(top, hs) ==
    IF hs = <<>> THEN top
    ELSE StrongestAction(
            IF _ACTION_PRIORITY[Head(hs).action] > _ACTION_PRIORITY[top]
                THEN Head(hs).action ELSE top,
            Tail(hs))

\* the baseline alone, the hits' actions left out
choose_action_baseline(score_severity, hs) ==
    CASE score_severity = "low" -> "allow"
      [] score_severity = "medium" -> "verify_out_of_band"
      [] score_severity = "high" -> "block"

choose_action(score_severity, hs) ==
    LET base == CASE score_severity = "low" -> "allow"
                  [] score_severity = "medium" -> "verify_out_of_band"
                  [] score_severity = "high" -> "block"
        top == StrongestAction(base, hs)
    IN  IF _ACTION_PRIORITY[top] >= _ACTION_PRIORITY[base] THEN top ELSE base

recommendations(action, severity) ==
    IF action = "block" THEN <<"block", "report">>
    ELSE IF action = "verify_out_of_band" THEN <<"verify_out_of_band", "report_if_confirmed">>
    ELSE IF action = "report" THEN <<"report", "educate_user">>
    ELSE <<"allow", "educate_user">>

\* list.sort(key=(start, end)) is stable: insert after the last element not greater
RECURSIVE InsertHighlight(_, _)
InsertHighlight(sorted, x) ==
    IF sorted = <<>> THEN <<x>>
    ELSE LET last == sorted[Len(sorted)]
         IN  IF last.start < x.start \/ (last.start = x.start /\ last.end <= x.end)
                THEN Append(sorted, x)
             ELSE Append(InsertHighlight(SubSeq(sorted, 1, Len(sorted) - 1), x), last)

RECURSIVE SortHighlights(_)
SortHighlights(out) ==
    IF out = <<>> THEN <<>>
    ELSE InsertHighlight(SortHighlights(SubSeq(out, 1, Len(out) - 1)), out[Len(out)])

RECURSIVE HighlightsOfHit(_, _, _)
HighlightsOfHit(h, k, out) ==
    IF k > Len(h.evidence) THEN out
    ELSE LET ev == h.evidence[k]
             x == TextHighlight(ev.start, ev.end, h.rule_id, h.title)
         IN  IF \E j \in 1..Len(out) :
                    <<out[j].start, out[j].end, out[j].rule_id>> = <<ev.start, ev.end, h.rule_id>>
                THEN HighlightsOfHit(h, k + 1, out)
             ELSE HighlightsOfHit(h, k + 1, Append(out, x))

RECURSIVE CollectHighlights(_, _)
CollectHighlights(hs, out) ==
    IF hs = <<>> THEN out
    ELSE CollectHighlights(Tail(hs), HighlightsOfHit(Head(hs), 1, out))

\* the list without its final sort
build_highlights_unsorted(hs) == CollectHighlights(hs, <<>>)

build_highlights(hs) == SortHighlights(CollectHighlights(hs, <<>>))

RECURSIVE _max_severity_from(_, _)
_max_severity_from(top, hs) ==
    IF hs = <<>> THEN top
    ELSE _max_severity_from(
            IF _SEVERITY_ORDER[Head(hs).severity] > _SEVERITY_ORDER[top]
                THEN Head(hs).severity ELSE top,
            Tail(hs))

\* the loop without its comparison: the severity of the last hit
_max_severity_last(hs) == IF hs = <<>> THEN "low" ELSE hs[Len(hs)].severity

_max_severity(hs) == _max_severity_from("low", hs)

RECURSIVE SumWeights(_)
SumWeights(hs) == IF hs = <<>> THEN 0 ELSE Head(hs).weight + SumWeights(Tail(hs))

\* unique = {}; for h in hits: unique[h.rule_id] = h; list(unique.values()):
\* one hit per rule id, the last one given, in the order the ids first appear
UniqueHitsNoDedup(hs) == hs
\* `if h.rule_id not in unique`: the first hit of a rule id kept, not the last
UniqueHitsFirst(hs) ==
    SelectSeq(hs, LAMBDA h : \A j \in 1..Len(hs) :
                (hs[j].rule_id = h.rule_id /\ hs[j] # h) =>
                    \E i \in 1..(j - 1) : hs[i] = h)
UniqueHits(hs) ==
    LET firsts == SelectSeq([k \in 1..Len(hs) |-> k],
                            LAMBDA k : \A j \in 1..(k - 1) : hs[j].rule_id # hs[k].rule_id)
        lastOf(id) == CHOOSE k \in 1..Len(hs) :
                        /\ hs[k].rule_id = id
                        /\ \A j \in (k + 1)..Len(hs) : hs[j].rule_id # id
    IN  [n \in 1..Len(firsts) |-> hs[lastOf(hs[firsts[n]].rule_id)]]

\* score_to_result; raw_points is the local the score is computed from
score_to_result(hs) ==
    LET unique_hits == UniqueHits(hs)
        raw_points == SumWeights(unique_hits)
        score == normalize_score(raw_points)
        sev_by_score == severity_from_score(score)
        sev_by_hits == _max_severity(unique_hits)
        sev == IF _SEVERITY_ORDER[sev_by_hits] > _SEVERITY_ORDER[sev_by_score]
                 THEN sev_by_hits ELSE sev_by_score
        act == choose_action(sev, unique_hits)
    IN  [score |-> score, severity |-> sev, action |-> act,
         recommendations |-> recommendations(act, sev),
         hits |-> unique_hits, highlights |-> build_highlights(unique_hits),
         raw_points |-> raw_points]

\* ------------------------------------------- rule_engine.py: context rules
AnalysisContext(urls, domains) == [urls |-> urls, domains |-> domains]

\* first token of toks whose lowercase form occurs in the normalized text
FirstLocatable(hay, toks) ==
    LET found == {k \in 1..Len(toks) : toks[k] # <<>> /\ Find(hay, Lower(toks[k]), 0) # -1}
    IN  IF found = {} THEN 0 ELSE CHOOSE k \in found : \A j \in found : k <= j

TokenEvidence(t, hay, tok, kind, pattern, label) ==
    LET idx == Find(hay, Lower(tok), 0)
        end == idx + Len(tok)
    IN  Evidence(kind, pattern, Slice(t, idx, end), idx, end, _snippet(t, idx, end), label)

\* _evidence_for_any_token: a URL span if one is found, else a domain span, else None
_evidence_for_any_token(t, hay, urls, domains, kind) ==
    LET u == FirstLocatable(hay, urls)
        d == FirstLocatable(hay, domains)
    IN  IF u # 0 THEN TokenEvidence(t, hay, urls[u], kind, <<"context:url">>, "url")
        ELSE IF d # 0 THEN TokenEvidence(t, hay, domains[d], kind, <<"context:domain">>, "domain")
        ELSE NoneObj

ContextRuleHit(t, hay, c, doms, rule_id, title, weight, severity, action) ==
    IF doms = <<>> THEN <<>>
    ELSE LET ev == _evidence_for_any_token(t, hay, c.urls, doms, "keyword")
         IN  IF ev = NoneObj THEN <<>>
             ELSE <<RuleHit(rule_id, title, weight, severity, action, <<ev>>)>>

\* _context_hits up to the reputation block: shortener, punycode, deep subdomains
ArtifactContextHits(t, hay, c) ==
    ContextRuleHit(t, hay, c, SelectSeq(c.domains, is_shortener_domain),
                   "CTX-URL-SHORTENER", "URL shortener detected", 14, "high", "block")
    \o ContextRuleHit(t, hay, c, SelectSeq(c.domains, is_punycode_domain),
                   "CTX-URL-PUNYCODE", "Punycode/IDN domain detected", 12, "high", "block")
    \o ContextRuleHit(t, hay, c, SelectSeq(c.domains, LAMBDA d : subdomain_count(d) >= 5),
                   "CTX-URL-SUBDOMAINS", "Suspiciously deep subdomain chain", 10,
                   "medium", "verify_out_of_band")

\* sorted(flagged, key=(malicious, suspicious), reverse=True)[0]: the sort is
\* stable, so the first of the greatest elements
\* sorted(...) without reverse=True: the first of the least elements
TopFlaggedAscending(flagged) ==
    LET le(x, y) == x.malicious < y.malicious
                    \/ (x.malicious = y.malicious /\ x.suspicious <= y.suspicious)
        lows == {k \in 1..Len(flagged) : \A j \in 1..Len(flagged) : le(flagged[k], flagged[j])}
    IN  flagged[CHOOSE k \in lows : \A j \in lows : k <= j]

TopFlagged(flagged) ==
    LET ge(x, y) == x.malicious > y.malicious
                    \/ (x.malicious = y.malicious /\ x.suspicious >= y.suspicious)
        tops == {k \in 1..Len(flagged) : \A j \in 1..Len(flagged) : ge(flagged[k], flagged[j])}
    IN  flagged[CHOOSE k \in tops : \A j \in tops : k <= j]

\* _context_hits, the reputation block once every domain has been looked up
ReputationHits(t, hay, c, flagged) ==
    IF flagged = <<>> THEN <<>>
    ELSE LET top == TopFlagged(flagged)
         IN  ContextRuleHit(t, hay, c, <<top.domain>>, "CTX-URL-REPUTATION",
                            "Domain flagged by reputation service",
                            IF top.malicious > 0 THEN 25 ELSE 18, "high", "block")

\* RuleEngine.match up to the reputation block
MatchLocal(eng, t, c) ==
    IF t = <<>> THEN <<>>
    ELSE LET hay == normalize_for_matching(t)
         IN  YamlHits(eng._compiled, 1, t, hay, eng._max_evidence_per_rule)
             \o (IF c # NoneObj THEN ArtifactContextHits(t, hay, c) ELSE <<>>)

\* ------------------------------------------------------------- cache.py
ttl_seconds == 3600
max_items == 2000

CacheTtl == Max(1, ttl_seconds)
CacheMaxItems == Max(50, max_items)

_Entry(key, value, expires_at) == [key |-> key, value |-> value, expires_at |-> expires_at]

\* position of key in the dict, 0 when absent
CacheIndex(data, key) ==
    IF \E k \in 1..Len(data) : data[k].key = key
        THEN CHOOSE k \in 1..Len(data) : data[k].key = key
    ELSE 0

CachePopKey(data, key) == SelectSeq(data, LAMBDA e : e.key # key)

\* TTLCache._purge: drop the expired entries, then the oldest ones down to target_size
_purge(data, t, target_size) ==
    LET live == SelectSeq(data, LAMBDA e : ~(e.expires_at <= t))
    IN  IF Len(live) <= target_size THEN live
        ELSE SubSeq(live, Max(0, Len(live) - target_size) + 1, Len(live))

\* self._data[key] = _Entry(...): a key already present keeps its position
CacheAssign(data, key, value, expires_at) ==
    IF CacheIndex(data, key) # 0
        THEN [data EXCEPT ![CacheIndex(data, key)] = _Entry(key, value, expires_at)]
    ELSE Append(data, _Entry(key, value, expires_at))

\* ---------------------------------------------------- url_reputation.py
ReputationResult(domain, malicious, suspicious, harmless, undetected) ==
    [domain |-> domain, malicious |-> malicious, suspicious |-> suspicious,
     harmless |-> harmless, undetected |-> undetected]

\* the key without the domain
CacheKeyShared(d) == <<"vt:domain:">>
CacheKey(d) == <<"vt:domain:">> \o d

\* what one HTTP request can come to: an httpx error or timeout, a 404, another
\* non-2xx status, a 2xx body that is not JSON, a 2xx JSON body that is not an
\* object of objects, or a 2xx body carrying last_analysis_stats
Stats == {[malicious |-> 0, suspicious |-> 0], [malicious |-> 0, suspicious |-> 1],
          [malicious |-> 1, suspicious |-> 0], [malicious |-> 1, suspicious |-> 1]}
Responses ==
    {[kind |-> k] : k \in {"neterr", "404", "5xx", "badjson", "not_object"}}
    \cup {[kind |-> "stats", stats |-> s] : s \in Stats}

\* `not d or not self.enabled`
LookupSkipsIgnoringEnabled(d, isEnabled) == d = <<>>
LookupSkips(d, isEnabled) == d = <<>> \/ ~isEnabled

\* TTLCache.get: `ent.expires_at <= now`
IsExpiredLate(e, t) == e.expires_at < t
IsExpired(e, t) == e.expires_at <= t

\* ------------------------------------------------------------ the inputs
TextAlphabet == {"a", "b", "A", IDOT, ZWSP}

RECURSIVE SeqsUpTo(_, _)
SeqsUpTo(S, n) ==
    IF n = 0 THEN {<<>>}
    ELSE LET shorter == SeqsUpTo(S, n - 1)
         IN  shorter \cup {Append(q, x) : q \in {r \in shorter : Len(r) = n - 1}, x \in S}

UrlTCo == <<"h", "t", "t", "p", ":", "/", "/", "t", ".", "c", "o">>
UrlAB == <<"h", "t", "t", "p", ":", "/", "/", "a", ".", "b">>
UrlCD == <<"h", "t", "t", "p", ":", "/", "/", "c", ".", "d">>
DomTCo == <<"t", ".", "c", "o">>
DomAB == <<"a", ".", "b">>
DomCD == <<"c", ".", "d">>

Message(t, c) == [text |-> t, ctx |-> c]

\* texts with URLs and what extract_all finds in them: a punycode host with a
\* zero-width space in it, a shortener with an upper-case path, a host of five
\* labels, a shortener with a zero-width space in the path, two URLs of which
\* the first has a zero-width space in the path, and two URLs of which the
\* second is a shortener
ContextMessages ==
    LET http == <<"h", "t", "t", "p", ":", "/", "/">>
        puny == <<"x", "n", "-", "-", "a", ZWSP, ".", "b">>
        deep == <<"a", ".", "b", ".", "c", ".", "d", ".", "e">>
        abZw == UrlAB \o <<"/", ZWSP>>
    IN  {Message(http \o puny, AnalysisContext(<<http \o puny>>, <<puny>>)),
         Message(UrlTCo \o <<"/", "A">>, AnalysisContext(<<UrlTCo \o <<"/", "A">>>>, <<DomTCo>>)),
         Message(http \o deep, AnalysisContext(<<http \o deep>>, <<deep>>)),
         Message(UrlTCo \o <<"/", ZWSP>>,
                 AnalysisContext(<<UrlTCo \o <<"/", ZWSP>>>>, <<DomTCo>>)),
         Message(abZw \o <<" ">> \o UrlTCo, AnalysisContext(<<abZw, UrlTCo>>, <<DomAB, DomTCo>>)),
         Message(UrlAB \o <<" ">> \o UrlTCo,
                 AnalysisContext(<<UrlAB, UrlTCo>>, <<DomAB, DomTCo>>))}

\* texts without a URL (extract_all finds nothing in them) and texts with URLs
PipeMessages ==
    {Message(t, AnalysisContext(<<>>, <<>>)) : t \in SeqsUpTo(TextAlphabet, MaxLen)}
    \cup {Message(UrlTCo, AnalysisContext(<<UrlTCo>>, <<DomTCo>>)),
          Message(<<IDOT, " ">> \o UrlTCo, AnalysisContext(<<UrlTCo>>, <<DomTCo>>))}
    \cup ContextMessages

RepMessages ==
    {Message(<<"a">>, AnalysisContext(<<>>, <<>>)),
     Message(UrlAB, AnalysisContext(<<UrlAB>>, <<DomAB>>)),
     Message(UrlAB \o <<" ">> \o UrlCD, AnalysisContext(<<UrlAB, UrlCD>>, <<DomAB, DomCD>>))}

\* arguments of a direct lookup_domain call
DomainInputs == {<<>>, <<" ">>, DomAB, <<" ", "A", ".", "b">>, DomCD}

RuleAnyKw ==
    Rule("R-ANY", "any keyword", 10, "low",
         RuleWhen("any", <<<<"A">>, <<" ", "b">>>>, <<>>, <<>>), "allow", TRUE)
RuleAllKw ==
    Rule("R-ALL", "all keywords", 40, "medium",
         RuleWhen("all", <<<<"a">>, <<"b">>>>, <<>>, <<>>), "report", TRUE)
RuleRx ==
    Rule("R-RX", "regexes", 20, "high",
         RuleWhen("any", <<>>, <<<<"a", "*">>>>,
              <<RulePattern("regex", <<"b">>, <<"m">>, None)>>), "block", TRUE)
RuleAllMixed ==
    Rule("R-MIX", "keyword and regex", 30, "low",
         RuleWhen("all", <<<<"b">>>>, <<<<"A">>>>, <<>>), "verify_out_of_band", TRUE)
RuleOff ==
    Rule("R-OFF", "disabled", 50, "high",
         RuleWhen("any", <<<<"a">>>>, <<>>, <<>>), "block", FALSE)

\* a keyword and a regex that match the same spans
RuleTwice ==
    Rule("R-TWICE", "keyword and regex alike", 10, "low",
         RuleWhen("any", <<<<"a">>>>, <<<<"a">>>>, <<>>), "report", TRUE)

Packs == {<<RuleAnyKw>>, <<RuleAllKw>>, <<RuleRx>>, <<RuleAllMixed, RuleAnyKw>>,
          <<RuleOff, RuleAllKw>>, <<RuleTwice>>}

\* RuleEngine(..., max_evidence_per_rule=20) is the default
DefaultMaxEvidence == 20
MaxEvidenceChoices == {1, 2, DefaultMaxEvidence}

Threads == {"t1", "t2"}

IdleThread ==
    [pc |-> "idle", mode |-> None, msg |-> Message(<<>>, NoneObj), out |-> <<>>,
     i |-> 0, flagged |-> <<>>, failed |-> 0, arg |-> <<>>, d |-> <<>>,
     value |-> NoneObj, setNow |-> 0, ret |-> NoneObj, res |-> NoneObj]

\* a cache handed to UrlReputationService(cache=...): empty, or one verdict
InitialCaches ==
    {<<>>,
     <<_Entry(CacheKey(DomAB), ReputationResult(DomAB, 1, 0, 0, 0), CacheTtl)>>}

\* a YAML document: a list whose items are mappings (rule records) or not
Item(rule) == [dict |-> TRUE, fields |-> rule]
NotAMapping == [dict |-> FALSE]
RawPack(rules) == [k \in 1..Len(rules) |-> Item(rules[k])]

\* ------------------------------------------------- the sequential pipeline
PipeIdle ==
    /\ call = NoCall
    /\ enabled = FALSE /\ now = 0 /\ cache = <<>> /\ netCalls = 0 /\ vt = NoneObj
    /\ th = [t \in Threads |-> [IdleThread EXCEPT !.pc = "off"]]

InitPipe ==
    /\ \E m \in PipeMessages : text = m.text /\ ctx = m.ctx
    /\ \E p \in Packs, cap \in MaxEvidenceChoices :
            pack = RawPack(p) /\ engine = RuleEngineInit(p, cap)
    /\ haystack = NoneStr /\ hits = <<>> /\ result = NoneObj /\ phase = "new"
    /\ PipeIdle

\* normalize_for_matching(text)
NormalizeCall ==
    /\ phase = "new" /\ haystack = NoneStr
    /\ haystack' = normalize_for_matching(text)
    /\ UNCHANGED <<call, pack, text, ctx, engine, hits, result, phase>>
    /\ UNCHANGED repVars

\* engine.match(text, ctx), the reputation service being disabled
MatchCall ==
    /\ phase \in {"new", "loaded"} /\ ~enabled
    /\ hits' = MatchLocal(engine, text, ctx)
    /\ phase' = "matched"
    /\ UNCHANGED <<call, pack, text, ctx, engine, haystack, result>>
    /\ UNCHANGED repVars

\* score_to_result(hits)
ScoreCall ==
    /\ phase = "matched"
    /\ result' = score_to_result(hits)
    /\ phase' = "scored"
    /\ UNCHANGED <<call, pack, text, ctx, engine, haystack, hits>>
    /\ UNCHANGED repVars

NextPipe == NormalizeCall \/ MatchCall \/ ScoreCall

SpecPipe == InitPipe /\ [][NextPipe]_vars

\* -------------------------------------------- score_to_result on any hits
HitChoices ==
    {RuleHit(id, "t", w, sev, act,
             <<Evidence("keyword", <<"a">>, <<"a">>, 0, 1, <<"a">>, "keyword")>>) :
        id \in {"R1", "R2"}, w \in {10, 40}, sev \in {"low", "high"},
        act \in {"allow", "report"}}
    \cup
    {RuleHit(id, "t", 10, "medium", act,
             <<Evidence("keyword", <<"a">>, <<"a">>, 0, 1, <<"a">>, "keyword")>>) :
        id \in {"R1", "R2"}, act \in {"verify_out_of_band", "block"}}

InitScore ==
    /\ text = <<"a">> /\ ctx = NoneObj
    /\ pack = RawPack(<<RuleAnyKw>>)
    /\ engine = RuleEngineInit(<<RuleAnyKw>>, DefaultMaxEvidence)
    /\ haystack = NoneStr /\ result = NoneObj /\ phase = "matched"
    /\ hits \in SeqsUpTo(HitChoices, MaxHits)
    /\ PipeIdle

SpecScore == InitScore /\ [][ScoreCall]_vars

\* ------------------------- score_to_result before and after one more hit
HighHits == {h \in HitChoices : h.severity = "high"}

\* hits and one more hit of severity high: MaxHits hits at most in all
InitMono ==
    /\ pack = RawPack(<<RuleAnyKw>>)
    /\ text = <<"a">> /\ ctx = NoneObj
    /\ engine = RuleEngineInit(<<RuleAnyKw>>, DefaultMaxEvidence)
    /\ haystack = NoneStr /\ result = NoneObj /\ phase = "matched"
    /\ hits \in SeqsUpTo(HitChoices, MaxHits - 1)
    /\ \E h \in HighHits :
            call = [fn |-> "score_to_result", arg |-> h, ret |-> NoneObj, done |-> FALSE]
    /\ enabled = FALSE /\ now = 0 /\ cache = <<>> /\ netCalls = 0 /\ vt = NoneObj
    /\ th = [t \in Threads |-> [IdleThread EXCEPT !.pc = "off"]]

\* hits.append(h); score_to_result(hits)
AddHitCall ==
    /\ phase = "scored" /\ call.fn = "score_to_result" /\ ~call.done
    /\ call' = [call EXCEPT !.ret = score_to_result(Append(hits, call.arg)), !.done = TRUE]
    /\ UNCHANGED <<pack, text, ctx, engine, haystack, hits, result, phase>>
    /\ UNCHANGED repVars

SpecMono == InitMono /\ [][ScoreCall \/ AddHitCall]_vars

\* ------------------------------------------- normalize_score on any integer
RawPoints == (0 - 5)..MaxRaw

\* the variables of the pipeline and of the service, none of them in use
Unused ==
    /\ pack = <<>> /\ text = <<>> /\ ctx = NoneObj /\ engine = NoneObj
    /\ haystack = NoneStr /\ hits = <<>> /\ result = NoneObj /\ phase = "call"
    /\ enabled = FALSE /\ now = 0 /\ cache = <<>> /\ netCalls = 0 /\ vt = NoneObj
    /\ th = [t \in Threads |-> [IdleThread EXCEPT !.pc = "off"]]

InitNorm ==
    /\ \E r \in RawPoints :
            call = [fn |-> "normalize_score", arg |-> r, ret |-> NoneObj, done |-> FALSE]
    /\ Unused

NormalizeScoreCall ==
    /\ call.fn = "normalize_score" /\ ~call.done
    /\ call' = [call EXCEPT !.ret = normalize_score(call.arg), !.done = TRUE]
    /\ UNCHANGED <<pack, text, ctx, engine, haystack, hits, result, phase>>
    /\ UNCHANGED repVars

SpecNorm == InitNorm /\ [][NormalizeScoreCall]_vars

\* ------------------------------------------------ loading a rule pack
\* Rule.model_validate: the field constraints of Rule, RuleWhen and RulePattern
model_validate(item) ==
    LET r == item.fields
    IN  /\ r.weight \in 0..100
        /\ r.severity \in Severities
        /\ r.action \in Actions
        /\ r.when.match \in {"any", "all"}
        /\ \A k \in 1..Len(r.when.patterns) :
                /\ r.when.patterns[k].type \in {"keyword", "regex"}
                /\ r.when.patterns[k].value # <<>>

\* RuleEngine.from_yaml on a document that parsed to a list: ok = FALSE stands
\* for RulePackError.  The loop after construction finds nothing: a regex that
\* does not compile has already raised in _compile_rule
from_yaml(raw, max_evidence_per_rule) ==
    IF \E k \in 1..Len(raw) : ~raw[k].dict \/ ~model_validate(raw[k])
        THEN [ok |-> FALSE]
    ELSE LET eng == RuleEngineInit([k \in 1..Len(raw) |-> raw[k].fields],
                                   max_evidence_per_rule)
         IN  IF eng.ok THEN [ok |-> TRUE, engine |-> eng] ELSE [ok |-> FALSE]

RuleBadRegex(isEnabled) ==
    Rule("R-BAD", "regex that does not compile", 10, "low",
         RuleWhen("any", <<<<"a">>>>, <<<<"(">>>>, <<>>), "allow", isEnabled)
RuleNoPatterns(isEnabled) ==
    Rule("R-NIL", "blank keyword only", 10, "low",
         RuleWhen("any", <<<<" ">>>>, <<>>, <<>>), "allow", isEnabled)
RuleBadWeight(isEnabled) ==
    Rule("R-101", "weight out of range", 101, "low",
         RuleWhen("any", <<<<"a">>>>, <<>>, <<>>), "allow", isEnabled)

\* a second rule with the id of RuleAnyKw, and a rule with the id of a context rule
RuleSameId ==
    Rule("R-ANY", "another rule of that id", 40, "high",
         RuleWhen("any", <<<<"a">>>>, <<>>, <<>>), "block", TRUE)
RuleContextId ==
    Rule("CTX-URL-SHORTENER", "a rule pack's own shortener rule", 5, "low",
         RuleWhen("any", <<<<"t", ".", "c", "o">>>>, <<>>, <<>>), "report", TRUE)

LoadItems ==
    {Item(RuleAnyKw), Item(RuleRx), Item(RuleOff), NotAMapping,
     Item(RuleSameId), Item(RuleContextId),
     Item(RuleBadRegex(TRUE)), Item(RuleBadRegex(FALSE)),
     Item(RuleNoPatterns(TRUE)), Item(RuleNoPatterns(FALSE)),
     Item(RuleBadWeight(FALSE))}

InitLoad ==
    /\ pack \in SeqsUpTo(LoadItems, MaxRules)
    /\ text = UrlTCo \o <<" ", "a">> /\ ctx = AnalysisContext(<<UrlTCo>>, <<DomTCo>>)
    /\ engine = NoneObj
    /\ haystack = NoneStr /\ hits = <<>> /\ result = NoneObj /\ phase = "unloaded"
    /\ PipeIdle

\* RuleEngine.from_yaml(path): the engine, or RulePackError and no engine
LoadCall ==
    /\ phase = "unloaded"
    /\ LET r == from_yaml(pack, DefaultMaxEvidence)
       IN  IF r.ok THEN engine' = r.engine /\ phase' = "loaded"
           ELSE engine' = NoneObj /\ phase' = "load_error"
    /\ UNCHANGED <<call, pack, text, ctx, haystack, hits, result>>
    /\ UNCHANGED repVars

\* the engine is loaded, then one message is matched
SpecLoad == InitLoad /\ [][LoadCall \/ MatchCall]_vars

\* ------------------------------------ analyses and lookups on worker threads
RepPack == <<RuleAnyKw>>

InitRepWith(serving, clocks, switches, caches) ==
    /\ vt = NoneObj
    /\ text = <<>> /\ ctx = NoneObj
    /\ call = NoCall
    /\ pack = RawPack(RepPack)
    /\ engine = RuleEngineInit(RepPack, DefaultMaxEvidence)
    /\ haystack = NoneStr /\ hits = <<>> /\ result = NoneObj /\ phase = "served"
    /\ enabled \in switches
    /\ now \in clocks
    /\ cache \in caches
    /\ netCalls = 0
    /\ th = [t \in Threads |-> IF t \in serving THEN IdleThread
                                ELSE [IdleThread EXCEPT !.pc = "off"]]

\* two worker threads serve requests of an enabled service whose cache holds
\* one verdict that is about to expire
InitRep ==
    InitRepWith(Threads, {MaxTime - TickStep}, {TRUE},
                {<<_Entry(CacheKey(DomAB), ReputationResult(DomAB, 1, 0, 0, 0), MaxTime)>>})

\* only one worker thread serves requests
InitRepSeq == InitRepWith({"t1"}, {0}, BOOLEAN, InitialCaches)

IsFlagged(res) == res # NoneObj /\ (res.malicious > 0 \/ res.suspicious > 0)

\* the rest of _context_hits once the loop over ctx.domains is over, then
\* score_to_result: Analyzer.analyze returns
Finished(rec, isEnabled) ==
    LET m == rec.msg
        rep == IF m.text # <<>> /\ isEnabled
                 THEN ReputationHits(m.text, normalize_for_matching(m.text), m.ctx, rec.flagged)
               ELSE <<>>
    IN  [rec EXCEPT !.res = score_to_result(rec.out \o rep), !.pc = "done"]

\* lookup_domain(arg) is entered: it returns None for an empty domain or a
\* disabled service, and goes on to cache.get otherwise.  When it returns (Returned)
\* the value goes to the caller, or into the loop over ctx.domains, which calls
\* lookup_domain for the next domain or ends
RECURSIVE Entered(_, _, _)
RECURSIVE Returned(_, _)
Entered(rec, arg, isEnabled) ==
    LET d == Lower(Strip(arg))
    IN  IF LookupSkips(d, isEnabled)
            THEN Returned([rec EXCEPT !.arg = arg, !.d = d, !.ret = NoneObj], isEnabled)
        ELSE [rec EXCEPT !.arg = arg, !.d = d, !.ret = NoneObj, !.pc = "get"]
Returned(rec, isEnabled) ==
    IF rec.mode = "lookup" THEN [rec EXCEPT !.res = rec.ret, !.pc = "done"]
    ELSE LET next == [rec EXCEPT
                        !.flagged = IF IsFlagged(rec.ret) THEN Append(@, rec.ret) ELSE @,
                        !.i = @ + 1]
         IN  IF rec.i < Len(rec.msg.ctx.domains)
                THEN Entered(next, rec.msg.ctx.domains[rec.i + 1], isEnabled)
             ELSE Finished(next, isEnabled)

\* Analyzer.analyze up to the first cache access of the reputation block
StartAnalyze(t) ==
    /\ th[t].pc = "idle"
    /\ \E m \in RepMessages :
        LET rec == [IdleThread EXCEPT !.mode = "analyze", !.msg = m, !.i = 1,
                                      !.out = MatchLocal(engine, m.text, m.ctx)]
        IN  th' = [th EXCEPT ![t] =
                    IF m.text # <<>> /\ enabled /\ m.ctx.domains # <<>>
                        THEN Entered(rec, m.ctx.domains[1], enabled)
                    ELSE Finished(rec, enabled)]
    /\ UNCHANGED <<enabled, now, cache, netCalls>>
    /\ UNCHANGED pipeVars

\* a caller invokes lookup_domain directly
StartLookup(t) ==
    /\ th[t].pc = "idle"
    /\ \E a \in DomainInputs :
        th' = [th EXCEPT ![t] = Entered([IdleThread EXCEPT !.mode = "lookup"], a, enabled)]
    /\ UNCHANGED <<enabled, now, cache, netCalls>>
    /\ UNCHANGED pipeVars

\* TTLCache.get up to the pop of an expired entry; `if cached is not None: return cached`
CacheGet(t) ==
    /\ th[t].pc = "get"
    /\ LET k == CacheIndex(cache, CacheKey(th[t].d))
       IN  th' = [th EXCEPT ![t] =
                    IF k = 0 THEN [@ EXCEPT !.pc = "net"]
                    ELSE IF IsExpired(cache[k], now) THEN [@ EXCEPT !.pc = "get_pop"]
                    ELSE IF cache[k].value # NoneObj
                        THEN Returned([@ EXCEPT !.ret = cache[k].value], enabled)
                    ELSE [@ EXCEPT !.pc = "net"]]
    /\ UNCHANGED <<enabled, now, cache, netCalls>>
    /\ UNCHANGED pipeVars

\* TTLCache.get: self._data.pop(key, None); return None
CachePop(t) ==
    /\ th[t].pc = "get_pop"
    /\ cache' = CachePopKey(cache, CacheKey(th[t].d))
    /\ th' = [th EXCEPT ![t].pc = "net"]
    /\ UNCHANGED <<enabled, now, netCalls>>
    /\ UNCHANGED pipeVars

\* the responses the API can give for domain d
Answers(api, d) == IF api = NoneObj THEN Responses ELSE {api[d]}

\* what lookup_domain makes of a response: the value to cache, or an exception
\* raised outside the try block
Outcome(d, r) ==
    IF r.kind \in {"neterr", "404", "5xx", "badjson"} THEN [raises |-> FALSE, value |-> NoneObj]
    ELSE IF r.kind = "not_object" THEN [raises |-> TRUE, value |-> NoneObj]
    ELSE [raises |-> FALSE,
          value |-> ReputationResult(d, r.stats.malicious, r.stats.suspicious, 0, 0)]

\* the HTTP request and the reading of its response
NetCall(t) ==
    /\ th[t].pc = "net"
    /\ netCalls < MaxNet
    /\ netCalls' = netCalls + 1
    /\ \E r \in Answers(vt, th[t].d) :
        LET o == Outcome(th[t].d, r)
        IN  th' = [th EXCEPT ![t].value = o.value,
                             ![t].failed = IF r.kind = "stats" THEN @ ELSE @ + 1,
                             ![t].pc = IF o.raises THEN "raised" ELSE "set"]
    /\ UNCHANGED <<enabled, now, cache>>
    /\ UNCHANGED pipeVars

\* TTLCache.set: read the clock, purge when full
CacheSetCheck(t) ==
    /\ th[t].pc = "set"
    /\ cache' = IF Len(cache) >= CacheMaxItems
                  THEN _purge(cache, now, CacheMaxItems \div 2) ELSE cache
    /\ th' = [th EXCEPT ![t].setNow = now, ![t].pc = "set_store"]
    /\ UNCHANGED <<enabled, now, netCalls>>
    /\ UNCHANGED pipeVars

\* TTLCache.set: self._data[key] = _Entry(value, now + ttl); lookup_domain returns
CacheStore(t) ==
    /\ th[t].pc = "set_store"
    /\ cache' = CacheAssign(cache, CacheKey(th[t].d), th[t].value, th[t].setNow + CacheTtl)
    /\ th' = [th EXCEPT ![t] = Returned([@ EXCEPT !.ret = th[t].value], enabled)]
    /\ UNCHANGED <<enabled, now, netCalls>>
    /\ UNCHANGED pipeVars

\* the request is over (answered, or failed with the exception); the thread is free again
Release(t) ==
    /\ th[t].pc \in {"done", "raised"}
    /\ th' = [th EXCEPT ![t] = IdleThread]
    /\ UNCHANGED <<enabled, now, cache, netCalls>>
    /\ UNCHANGED pipeVars

\* time passes
Tick ==
    /\ now + TickStep <= MaxTime
    /\ now' = now + TickStep
    /\ UNCHANGED <<enabled, cache, th, netCalls>>
    /\ UNCHANGED pipeVars

NextRep ==
    \/ Tick
    \/ \E t \in Threads :
        \/ StartAnalyze(t) \/ StartLookup(t) \/ CacheGet(t) \/ CachePop(t)
        \/ NetCall(t) \/ CacheSetCheck(t) \/ CacheStore(t) \/ Release(t)

SpecRep == InitRep /\ [][NextRep]_vars

SpecRepSeq == InitRepSeq /\ [][NextRep]_vars

\* ------------- the same message analyzed again, the API answering the same
\* one worker thread, a fresh service, and an API whose answer for a domain
\* never changes
InitIdem ==
    /\ vt \in [{DomAB, DomCD} -> Responses]
    /\ call = NoCall
    /\ pack = RawPack(RepPack)
    /\ text = <<>> /\ ctx = NoneObj
    /\ engine = RuleEngineInit(RepPack, DefaultMaxEvidence)
    /\ haystack = NoneStr /\ hits = <<>> /\ result = NoneObj /\ phase = "served"
    /\ enabled = TRUE /\ now = 0 /\ cache = <<>> /\ netCalls = 0
    /\ th = [t \in Threads |-> IF t = "t1" THEN IdleThread
                                ELSE [IdleThread EXCEPT !.pc = "off"]]

\* Analyzer.analyze has returned: the caller keeps the message and the result
Remember(t) ==
    /\ th[t].pc = "done" /\ th[t].mode = "analyze" /\ call = NoCall
    /\ call' = [fn |-> "analyze", arg |-> th[t].msg, ret |-> th[t].res, done |-> TRUE]
    /\ th' = [th EXCEPT ![t] = IdleThread]
    /\ UNCHANGED <<pack, text, ctx, engine, haystack, hits, result, phase>>
    /\ UNCHANGED <<enabled, now, cache, netCalls, vt>>

NextIdem ==
    \/ Tick
    \/ \E t \in Threads :
        \/ StartAnalyze(t) \/ StartLookup(t) \/ CacheGet(t) \/ CachePop(t)
        \/ NetCall(t) \/ CacheSetCheck(t) \/ CacheStore(t) \/ Release(t)
        \/ Remember(t)

SpecIdem == InitIdem /\ [][NextIdem]_vars

\* ------------------------------------ extractors.py: the four extractions
ELLIPSIS == "ELLIPSIS"

_WRAPPING_CHARS == {"\"", "'", "<", ">", "[", "]", "(", ")", "{", "}"}

_TRAILING_PUNCT == {".", ",", ";", ":", "!", "?", ELLIPSIS}

Digits == {"0", "1", "2", "3", "4", "5", "6", "7", "8", "9"}

\* str.lstrip(chars), str.rstrip(chars), str.strip(chars)
RECURSIVE LStripChars(_, _)
LStripChars(s, chars) ==
    IF s # <<>> /\ Head(s) \in chars THEN LStripChars(Tail(s), chars) ELSE s

RECURSIVE RStripChars(_, _)
RStripChars(s, chars) ==
    IF s # <<>> /\ s[Len(s)] \in chars
    THEN RStripChars(SubSeq(s, 1, Len(s) - 1), chars) ELSE s

StripChars(s, chars) == RStripChars(LStripChars(s, chars), chars)

Http == <<"h", "t", "t", "p", ":", "/", "/">>
Https == <<"h", "t", "t", "p", "s", ":", "/", "/">>

\* urlsplit(s).netloc of a string that starts with http:// or https://: what
\* lies between the two slashes and the next "/", "?" or "#"
NetlocOf(s) ==
    LET from == IF StartsWithAt(Lower(s), Https, 0) THEN Len(Https) ELSE Len(Http)
        stops == {i \in (from + 1)..Len(s) : s[i] \in {"/", "?", "#"}}
        stop == IF stops = {} THEN Len(s) + 1
                ELSE CHOOSE i \in stops : \A j \in stops : i <= j
    IN  SubSeq(s, from + 1, stop - 1)

\* urlsplit raises ValueError on a netloc with one square bracket and not the other
UrlsplitRaises(s) ==
    LET netloc == NetlocOf(s)
        has(c) == \E i \in 1..Len(netloc) : netloc[i] = c
    IN  has("[") # has("]")

_strip_balanced_wrappers(s) ==
    IF Len(s) < 2 THEN s
    ELSE IF \E pair \in {<<"(", ")">>, <<"[", "]">>, <<"{", "}">>, <<"<", ">">>,
                         <<"\"", "\"">>, <<"'", "'">>} :
                s[1] = pair[1] /\ s[Len(s)] = pair[2]
         THEN Strip(SubSeq(s, 2, Len(s) - 1))
         ELSE s

\* _clean_url; the empty string is the empty sequence
_clean_url(url) ==
    IF url = <<>> THEN <<>>
    ELSE LET stripped == StripChars(Strip(url), _WRAPPING_CHARS)
             trimmed == RStripChars(stripped, _TRAILING_PUNCT)
             unwrapped == RStripChars(trimmed, _WRAPPING_CHARS)
             s == _strip_balanced_wrappers(unwrapped)
         IN  IF ~(StartsWithAt(Lower(s), Http, 0) \/ StartsWithAt(Lower(s), Https, 0))
             THEN <<>>
             ELSE IF UrlsplitRaises(s) THEN <<>>
             ELSE IF NetlocOf(s) = <<>> THEN <<>>
             ELSE s

\* urlsplit(url).hostname: the netloc after its last "@" and before its first
\* ":", lowercased
HostnameOf(url) ==
    LET netloc == NetlocOf(url)
        ats == {i \in 1..Len(netloc) : netloc[i] = "@"}
        hostinfo == IF ats = {} THEN netloc
                    ELSE SubSeq(netloc, (CHOOSE i \in ats : \A j \in ats : j <= i) + 1,
                                Len(netloc))
        colons == {i \in 1..Len(hostinfo) : hostinfo[i] = ":"}
    IN  Lower(IF colons = {} THEN hostinfo
              ELSE SubSeq(hostinfo, 1, (CHOOSE i \in colons : \A j \in colons : i <= j) - 1))

domain_from_url(url) ==
    IF url = <<>> \/ UrlsplitRaises(url) THEN <<>>
    ELSE LET host == Lower(Strip(HostnameOf(url)))
         IN  IF host = <<>> THEN <<>> ELSE RStripChars(StripWww(host), {"."})

_normalize_phone(s) ==
    IF s = <<>> THEN <<>>
    ELSE LET t == Strip(s)
             plus == StartsWithAt(t, <<"+">>, 0)
             digits == SelectSeq(t, LAMBDA c : c \in Digits)
         IN  IF Len(digits) < 9 THEN <<>>
             ELSE (IF plus THEN <<"+">> ELSE <<>>) \o digits

\* the loop of the four extractions over what finditer (or the caller) hands
\* it: an empty item is skipped, an item already seen is skipped, the others
\* are appended to out
RECURSIVE KeepFirst(_, _)
KeepFirst(items, out) ==
    IF items = <<>> THEN out
    ELSE LET x == Head(items)
         IN  KeepFirst(Tail(items),
                       IF x = <<>> \/ \E k \in 1..Len(out) : out[k] = x
                       THEN out ELSE Append(out, x))

\* extract_urls, given the matches of _URL_RE in the text from left to right
extract_urls(matches) ==
    KeepFirst([k \in 1..Len(matches) |-> _clean_url(matches[k])], <<>>)

extract_domains(urls) ==
    KeepFirst([k \in 1..Len(urls) |-> domain_from_url(urls[k])], <<>>)

\* `email = m.group(0)`: the match kept as it is written
extract_emails_as_written(matches) == KeepFirst(matches, <<>>)
\* extract_emails, given the matches of _EMAIL_RE from left to right
extract_emails(matches) ==
    KeepFirst([k \in 1..Len(matches) |-> Lower(matches[k])], <<>>)

\* extract_phones, given the matches of _PHONE_RE from left to right
extract_phones(matches) ==
    KeepFirst([k \in 1..Len(matches) |-> _normalize_phone(Strip(matches[k]))], <<>>)

\* ------------------------------------------- the extractions on any matches
MaxMatches == 3
MaxTail == 3

UrlA == Http \o <<"a">>

\* matches of _URL_RE: no blank, no angle bracket, no closing square bracket
UrlMatches ==
    {UrlA, UrlA \o <<")", ",">>, UrlA \o <<".", ")", ".">>, UrlCD,
     Http \o <<".">>}

\* absolute URLs as a caller of extract_domains hands them over
UrlInputs ==
    {UrlAB, Http \o WWW \o <<"A", ".", "b", "/", "a">>, UrlAB \o <<".">>,
     Http \o <<"a", "@", "a", ".", "b", ":", "8">>, UrlCD}

EmailMatches ==
    {<<"A", "@", "b", ".", "c", "d">>, <<"a", "@", "b", ".", "c", "d">>,
     <<"a", "@", "b", ".", "A", "A">>, <<"b", "@", "b", ".", "c", "d">>}

PhoneMatches ==
    {<<"+", "1", " ", "2", "1", "2", " ", "5", "5", "5", " ", "1", "2", "3", "4">>,
     <<"+", "1", "-", "2", "1", "2", "-", "5", "5", "5", "-", "1", "2", "3", "4">>,
     <<"1", "2", "1", "2", "5", "5", "5", "1", "2", "3", "4">>,
     <<"0", "3", "-", "5", "5", "5", "-", "1", "2", "3", "4">>}

MatchesOf(fn) ==
    CASE fn = "extract_urls" -> UrlMatches
      [] fn = "extract_domains" -> UrlInputs
      [] fn = "extract_emails" -> EmailMatches
      [] fn = "extract_phones" -> PhoneMatches

ExtractFns == {"extract_urls", "extract_domains", "extract_emails", "extract_phones"}

InitExtract ==
    /\ \E fn \in ExtractFns : \E ms \in SeqsUpTo(MatchesOf(fn), MaxMatches) :
            call = [fn |-> fn, arg |-> ms, ret |-> NoneObj, done |-> FALSE]
    /\ Unused

ExtractUrlsCall ==
    /\ call.fn = "extract_urls" /\ ~call.done
    /\ call' = [call EXCEPT !.ret = extract_urls(call.arg), !.done = TRUE]
    /\ UNCHANGED <<pack, text, ctx, engine, haystack, hits, result, phase>>
    /\ UNCHANGED repVars

ExtractDomainsCall ==
    /\ call.fn = "extract_domains" /\ ~call.done
    /\ call' = [call EXCEPT !.ret = extract_domains(call.arg), !.done = TRUE]
    /\ UNCHANGED <<pack, text, ctx, engine, haystack, hits, result, phase>>
    /\ UNCHANGED repVars

ExtractEmailsCall ==
    /\ call.fn = "extract_emails" /\ ~call.done
    /\ call' = [call EXCEPT !.ret = extract_emails(call.arg), !.done = TRUE]
    /\ UNCHANGED <<pack, text, ctx, engine, haystack, hits, result, phase>>
    /\ UNCHANGED repVars

ExtractPhonesCall ==
    /\ call.fn = "extract_phones" /\ ~call.done
    /\ call' = [call EXCEPT !.ret = extract_phones(call.arg), !.done = TRUE]
    /\ UNCHANGED <<pack, text, ctx, engine, haystack, hits, result, phase>>
    /\ UNCHANGED repVars

NextExtract ==
    \/ ExtractUrlsCall
    \/ ExtractDomainsCall
    \/ ExtractEmailsCall
    \/ ExtractPhonesCall

SpecExtract == InitExtract /\ [][NextExtract]_vars

\* --------------------------------------------- _clean_url on any candidate
TailAlphabet == {"a", ".", ",", ")", "(", "'"}

\* candidates as _URL_RE matches them: a scheme, a host and a tail
UrlCandidates == {UrlA \o tail : tail \in SeqsUpTo(TailAlphabet, MaxTail)}

InitClean ==
    /\ \E c \in UrlCandidates :
            call = [fn |-> "_clean_url", arg |-> c, ret |-> NoneObj, done |-> FALSE]
    /\ Unused

CleanUrlCall ==
    /\ call.fn = "_clean_url" /\ ~call.done
    /\ call' = [call EXCEPT !.ret = _clean_url(call.arg), !.done = TRUE]
    /\ UNCHANGED <<pack, text, ctx, engine, haystack, hits, result, phase>>
    /\ UNCHANGED repVars

SpecClean == InitClean /\ [][CleanUrlCall]_vars

\* ------------------------------------ cache.py: gets and sets on one TTLCache
\* TTLCache.__init__: the attributes that never change afterwards
TTLCacheInit(ttl, size) == [ttl |-> Max(1, ttl), max_items |-> Max(50, size)]

\* TTLCache.get: the dict afterwards and the value returned
TTLCacheGet(data, key, t) ==
    LET at == CacheIndex(data, key)
    IN  IF at = 0 THEN [data |-> data, ret |-> None]
        ELSE IF IsExpired(data[at], t) THEN [data |-> CachePopKey(data, key), ret |-> None]
        ELSE [data |-> data, ret |-> data[at].value]

\* `self._data[key] = ...` without the purge before it
TTLCacheSetNoPurge(self, data, key, value, t) ==
    CacheAssign(data, key, value, t + self.ttl)
\* TTLCache.set: the dict afterwards
TTLCacheSet(self, data, key, value, t) ==
    CacheAssign(IF Len(data) >= self.max_items
                THEN _purge(data, t, self.max_items \div 2) ELSE data,
                key, value, t + self.ttl)

Key(n) == <<"k", n>>

\* the dict after set(Key(1), "v0"), ..., set(Key(n), "v0") at time 0
Filled(self, n) == [i \in 1..n |-> _Entry(Key(i), "v0", self.ttl)]

TtlChoices == {0, 1200}
MaxItemsChoices == {0, 51}
FilledChoices == {0, 49, 50}
CacheKeys == {Key(1), Key(50), Key(51)}
CacheValues == {"v1", "v2"}

InitCache ==
    /\ \E ttl \in TtlChoices, size \in MaxItemsChoices, n \in FilledChoices :
            LET self == TTLCacheInit(ttl, size)
            IN  /\ call = [fn |-> None, self |-> self, arg |-> NoneObj, ret |-> NoneObj,
                           at |-> 0, done |-> FALSE]
                /\ cache = Filled(self, n)
    /\ pack = <<>> /\ text = <<>> /\ ctx = NoneObj /\ engine = NoneObj
    /\ haystack = NoneStr /\ hits = <<>> /\ result = NoneObj /\ phase = "call"
    /\ enabled = FALSE /\ now = 0 /\ netCalls = 0 /\ vt = NoneObj
    /\ th = [t \in Threads |-> [IdleThread EXCEPT !.pc = "off"]]

CacheGetCall(key) ==
    /\ call.fn \in {None, "get", "set"}
    /\ LET got == TTLCacheGet(cache, key, now)
       IN  /\ cache' = got.data
           /\ call' = [call EXCEPT !.fn = "get", !.arg = <<key>>, !.ret = got.ret,
                                   !.at = now, !.done = TRUE]
    /\ UNCHANGED <<pack, text, ctx, engine, haystack, hits, result, phase, vt>>
    /\ UNCHANGED <<enabled, now, th, netCalls>>

CacheSetCall(key, value) ==
    /\ call.fn \in {None, "get", "set"}
    /\ cache' = TTLCacheSet(call.self, cache, key, value, now)
    /\ call' = [call EXCEPT !.fn = "set", !.arg = <<key, value>>, !.ret = None,
                            !.at = now, !.done = TRUE]
    /\ UNCHANGED <<pack, text, ctx, engine, haystack, hits, result, phase, vt>>
    /\ UNCHANGED <<enabled, now, th, netCalls>>

NextCache ==
    \/ Tick
    \/ \E key \in CacheKeys : CacheGetCall(key)
    \/ \E key \in CacheKeys : \E value \in CacheValues : CacheSetCall(key, value)

SpecCache == InitCache /\ [][NextCache]_vars

\* ================================================================ claims

\* C1: normalize_for_matching(text) has exactly the length of text; a zero-width
\* character becomes one space and nothing is inserted or removed.
C1_NormalizeKeepsLength ==
    haystack # NoneStr =>
        /\ Len(haystack) = Len(text)
        /\ \A k \in 1..Min(Len(text), Len(haystack)) :
                text[k] \in _ZERO_WIDTH => haystack[k] = " "

SpanInText(x) == 0 <= x.start /\ x.start <= x.end /\ x.end <= Len(text)

\* C2: every Evidence of every returned hit and every Highlight lies inside the
\* analyzed text, 0 <= start <= end <= len(text), and the slice text[start:end]
\* of the original text is the recorded match.
C2_OffsetsValid ==
    phase = "scored" =>
        /\ \A h \in 1..Len(result.hits) : \A e \in 1..Len(result.hits[h].evidence) :
            LET ev == result.hits[h].evidence[e]
            IN  SpanInText(ev) /\ SubSeq(text, ev.start + 1, ev.end) = ev.match
        /\ \A k \in 1..Len(result.highlights) : SpanInText(result.highlights[k])

\* the sum, over the rule ids of ids, of the weight of the hit of hs with that id
RECURSIVE SumByRuleId(_, _)
SumByRuleId(ids, hs) ==
    IF ids = {} THEN 0
    ELSE LET id == CHOOSE y \in ids : TRUE
             k == CHOOSE j \in 1..Len(hs) : hs[j].rule_id = id
         IN  hs[k].weight + SumByRuleId(ids \ {id}, hs)

IdsOf(hs) == {hs[k].rule_id : k \in 1..Len(hs)}

\* C3: whatever list of hits score_to_result is given, the result holds at most
\* one RuleHit per rule id, one of the given hits for every rule id given, and
\* raw_points is the sum over the rule ids of the weight of that one hit.
C3_OneHitPerRuleId ==
    phase = "scored" =>
        /\ \A j, k \in 1..Len(result.hits) :
                result.hits[j].rule_id = result.hits[k].rule_id => j = k
        /\ IdsOf(result.hits) = IdsOf(hits)
        /\ \A k \in 1..Len(result.hits) : \E j \in 1..Len(hits) : hits[j] = result.hits[k]
        /\ result.raw_points = SumByRuleId(IdsOf(hits), result.hits)

\* C3 witness: three hits, two of them of one rule id with different weights, scored
C3_Witness ==
    /\ phase = "scored"
    /\ Len(hits) = 3 /\ Len(result.hits) = 2
    /\ \E j, k \in 1..Len(hits) :
        j # k /\ hits[j].rule_id = hits[k].rule_id /\ hits[j].weight # hits[k].weight

HasReputationHit(res) ==
    \E k \in 1..Len(res.hits) : res.hits[k].rule_id = "CTX-URL-REPUTATION"

\* C4: with the reputation service enabled, an analysis whose lookups fail still
\* returns a result, never an exception, and when every lookup of the analysis
\* failed the result holds no CTX-URL-REPUTATION hit.
C4_AnalysisSurvivesLookupFailure ==
    \A t \in Threads :
        (enabled /\ th[t].mode = "analyze") =>
            /\ th[t].pc # "raised"
            /\ (th[t].pc = "done" /\ th[t].failed = Len(th[t].msg.ctx.domains)
                    /\ th[t].msg.ctx.domains # <<>>)
                => ~HasReputationHit(th[t].res)

\* C5: on an enabled service lookup_domain raises nothing and returns None for
\* every failing outcome of the request: network error or timeout, 404, another
\* non-2xx status, a 2xx body of an unexpected shape.
C5_FailedLookupReturnsNone ==
    \A t \in Threads :
        (enabled /\ th[t].mode = "lookup") =>
            /\ th[t].pc # "raised"
            /\ (th[t].pc = "done" /\ th[t].failed > 0) => th[t].res = NoneObj

KeyOfArg(t) == CacheKey(Lower(Strip(th[t].arg)))

\* C6: while the cache holds the unexpired entry of a failed lookup of d, a
\* lookup of d is answered None from the cache and makes no network call.
C6_FailureIsCached ==
    [][\A t \in Threads :
        LET k == CacheIndex(cache, KeyOfArg(t))
        IN  (/\ th[t].pc = "get" /\ th'[t] # th[t]
             /\ k # 0 /\ cache[k].value = NoneObj /\ cache[k].expires_at > now)
            => (th'[t].pc # "net" /\ netCalls' = netCalls)]_vars

\* C7: an entry is stored with expiry = time of the set + 3600; while the cache
\* holds an unexpired verdict for the trimmed, lowercased domain, a lookup
\* returns that verdict and makes no network call and no change to the cache;
\* the first lookup at or after the expiry removes the entry and makes a network call.
C7_VerdictCachedUntilExpiry ==
    [][\A t \in Threads :
        LET k == CacheIndex(cache, KeyOfArg(t))
            k2 == CacheIndex(cache', KeyOfArg(t))
        IN  /\ (th[t].pc = "get" /\ th'[t] # th[t] /\ k # 0 /\ cache[k].value # NoneObj) =>
                IF cache[k].expires_at > now
                    THEN /\ netCalls' = netCalls /\ cache' = cache
                         /\ th[t].mode = "lookup" =>
                                (th'[t].pc = "done" /\ th'[t].res = cache[k].value)
                         /\ th[t].mode = "analyze" =>
                                /\ th'[t].pc \in {"get", "done"}
                                /\ th'[t].i = th[t].i + 1
                                /\ th'[t].flagged =
                                    IF cache[k].value.malicious > 0 \/ cache[k].value.suspicious > 0
                                        THEN Append(th[t].flagged, cache[k].value)
                                    ELSE th[t].flagged
                ELSE th'[t].pc = "get_pop"
            /\ (th[t].pc = "get_pop" /\ th'[t] # th[t]) => (k2 = 0 /\ th'[t].pc = "net")
            /\ (th[t].pc = "net" /\ th'[t] # th[t]) => netCalls' = netCalls + 1
            /\ (th[t].pc = "set_store" /\ th'[t] # th[t]) =>
                    /\ k2 # 0
                    /\ cache'[k2].value = th[t].value
                    /\ cache'[k2].expires_at = th[t].setNow + 3600]_vars

\* C7 witness: a verdict fetched over the network for c.d is in the cache, time
\* has passed, and a later lookup of c.d has returned it without a request of its own
C7_Witness ==
    /\ enabled /\ now > 0 /\ netCalls = 1
    /\ th["t1"].pc = "done" /\ th["t1"].mode = "lookup" /\ th["t1"].d = DomCD
    /\ th["t1"].failed = 0 /\ th["t1"].value = NoneObj
    /\ th["t1"].res # NoneObj
    /\ CacheIndex(cache, CacheKey(DomCD)) # 0
    /\ cache[CacheIndex(cache, CacheKey(DomCD))].value = th["t1"].res

InCacheMethod(t) == th[t].pc \in {"get_pop", "set_store"}
BetweenGetAndSet(t) == th[t].pc \in {"get_pop", "net", "set", "set_store"}

\* C8: the cache's get and set steps are mutually exclusive, and the
\* get-then-set sequences of two lookups of one domain never overlap.
C8_CacheStepsExclusive ==
    \A t1, t2 \in Threads :
        t1 # t2 =>
            /\ ~(InCacheMethod(t1) /\ InCacheMethod(t2))
            /\ ~(BetweenGetAndSet(t1) /\ BetweenGetAndSet(t2) /\ th[t1].d = th[t2].d)

\* C9: with the service disabled no request is ever sent, the cache never
\* changes, nothing is raised, lookup_domain returns None and no result holds
\* a CTX-URL-REPUTATION hit.
C9_DisabledIsInert ==
    /\ [](~enabled =>
            /\ netCalls = 0
            /\ \A t \in Threads :
                /\ th[t].pc # "raised"
                /\ (th[t].pc = "done" /\ th[t].mode = "lookup") => th[t].res = NoneObj
                /\ (th[t].pc = "done" /\ th[t].mode = "analyze") => ~HasReputationHit(th[t].res))
    /\ [][~enabled => (cache' = cache /\ netCalls' = netCalls)]_vars

\* C9 witness: the service is disabled, its cache holds a verdict for a.b, and a
\* lookup of a.b has returned
C9_Witness ==
    /\ ~enabled
    /\ CacheIndex(cache, CacheKey(DomAB)) # 0
    /\ th["t1"].pc = "done" /\ th["t1"].mode = "lookup" /\ th["t1"].d = DomAB

\* C10: a rule of match mode `all` yields a hit only if every one of its
\* patterns matches the text at least once.
C10_AllModeNeedsEveryPattern ==
    phase \in {"matched", "scored"} =>
        \A h \in 1..Len(hits) : \A r \in 1..Len(engine._compiled) :
            LET cr == engine._compiled[r]
            IN  (cr.rule.id = hits[h].rule_id /\ cr.match_mode = "all") =>
                    \A p \in 1..Len(cr.patterns) :
                        _match_one(cr.patterns[p], text, normalize_for_matching(text)) # <<>>

\* C11: for a rule of match mode any, match emits exactly one hit when at least
\* one of its patterns has a non-zero-length match and none otherwise; the
\* evidence is the matches of the patterns, in pattern order, cut at
\* max_evidence_per_rule, so it has between 1 and max_evidence_per_rule items
RECURSIVE MatchesInPatternOrder(_, _, _, _)
MatchesInPatternOrder(cps, k, t, hay) ==
    IF k > Len(cps) THEN <<>>
    ELSE _match_one(cps[k], t, hay) \o MatchesInPatternOrder(cps, k + 1, t, hay)

HitsOfRule(hs, id) == SelectSeq(hs, LAMBDA h : h.rule_id = id)

C11_AnyModeOneHit ==
    phase # "new" =>
        \A k \in 1..Len(engine._compiled) :
            LET cr == engine._compiled[k]
                cap == engine._max_evidence_per_rule
                all == MatchesInPatternOrder(cr.patterns, 1, text, normalize_for_matching(text))
                mine == HitsOfRule(hits, cr.rule.id)
            IN  cr.match_mode = "any" =>
                    IF all = <<>> THEN mine = <<>>
                    ELSE /\ Len(mine) = 1
                         /\ mine[1].evidence = SubSeq(all, 1, Min(Len(all), cap))
                         /\ Len(mine[1].evidence) \in 1..cap

\* an any-mode rule whose patterns match more often than the cap allows has fired
C11_Witness ==
    /\ phase = "matched"
    /\ \E k \in 1..Len(engine._compiled) :
            LET cr == engine._compiled[k]
                all == MatchesInPatternOrder(cr.patterns, 1, text, normalize_for_matching(text))
            IN  /\ cr.match_mode = "any" /\ Len(cr.patterns) = 2
                /\ Len(all) > engine._max_evidence_per_rule
                /\ engine._max_evidence_per_rule = 2
                /\ HitsOfRule(hits, cr.rule.id) # <<>>

\* C12 as stated: loading never succeeds partially.  If any record of the pack,
\* enabled or disabled, fails schema validation, has a regex that does not
\* compile or has no effective pattern, loading raises RulePackError and no
\* engine is returned; otherwise the engine holds every enabled rule, compiled
Offending(item) ==
    ~item.dict \/ ~model_validate(item) \/ ~_compile_rule(item.fields).ok

EnabledRulesOf(raw) ==
    SelectSeq([k \in 1..Len(raw) |-> raw[k].fields], LAMBDA r : r.enabled)

LoadedWhole ==
    /\ phase = "loaded" /\ engine # NoneObj
    /\ engine._rules = EnabledRulesOf(pack)
    /\ Len(engine._compiled) = Len(engine._rules)
    /\ \A k \in 1..Len(engine._compiled) :
            engine._compiled[k].ok /\ engine._compiled[k].rule = engine._rules[k]

C12_LoadNeverPartial ==
    phase \in {"loaded", "load_error"} =>
        IF \E k \in 1..Len(pack) : Offending(pack[k])
            THEN phase = "load_error" /\ engine = NoneObj
        ELSE LoadedWhole

\* C12 amended: a record that is disabled is not compiled, so only its schema counts
OffendingWhenEnabled(item) ==
    \/ ~item.dict
    \/ ~model_validate(item)
    \/ item.fields.enabled /\ ~_compile_rule(item.fields).ok

C12_LoadNeverPartialOfEnabled ==
    phase \in {"loaded", "load_error"} =>
        IF \E k \in 1..Len(pack) : OffendingWhenEnabled(pack[k])
            THEN phase = "load_error" /\ engine = NoneObj
        ELSE LoadedWhole

\* a pack with a disabled rule whose regex does not compile has loaded
C12_Witness ==
    /\ phase = "loaded" /\ Len(engine._compiled) = 1
    /\ \E k \in 1..Len(pack) :
            /\ pack[k].dict /\ ~pack[k].fields.enabled
            /\ ~_compile_rule(pack[k].fields).ok

\* C13: normalize_score returns a score in 0..100 for every integer raw_points:
\* 0 for raw_points <= 0, non-decreasing in raw_points, 63 for 35 and 86 for 70
C13_NormalizeScoreShape ==
    (call.fn = "normalize_score" /\ call.done) =>
        /\ call.ret \in 0..100
        /\ call.arg <= 0 => call.ret = 0
        /\ call.arg = 35 => call.ret = 63
        /\ call.arg = 70 => call.ret = 86
        /\ \A r \in RawPoints : r <= call.arg => normalize_score(r) <= call.ret

\* normalize_score(70) has returned
C13_Witness == call.fn = "normalize_score" /\ call.done /\ call.arg = 70 /\ call.ret = 86

\* the orders low < medium < high and allow < report < verify-out-of-band < block
SevRank(x) == CASE x = "low" -> 0 [] x = "medium" -> 1 [] x = "high" -> 2
ActRank(a) ==
    CASE a = "allow" -> 0 [] a = "report" -> 1 [] a = "verify_out_of_band" -> 2
      [] a = "block" -> 3

ScoreSeverity(score) ==
    IF score >= 70 THEN "high" ELSE IF score >= 30 THEN "medium" ELSE "low"

\* C14: the final severity is the maximum, under low < medium < high, of the
\* severity the score gives (>= 70 high, >= 30 medium, else low) and the
\* severities of the unique hits; it is never below the severity the score gives
C14_SeverityIsMaximum ==
    phase = "scored" =>
        LET cands == {ScoreSeverity(result.score)}
                     \cup {result.hits[k].severity : k \in 1..Len(result.hits)}
        IN  /\ result.severity \in cands
            /\ \A x \in cands : SevRank(x) <= SevRank(result.severity)
            /\ SevRank(result.severity) >= SevRank(ScoreSeverity(result.score))

\* a score below 70 whose result is high because of a hit, not the last one
C14_Witness ==
    /\ phase = "scored" /\ result.score < 70 /\ result.severity = "high"
    /\ Len(result.hits) = 2 /\ result.hits[2].severity = "low"

Baseline(sev) ==
    CASE sev = "low" -> "allow" [] sev = "medium" -> "verify_out_of_band"
      [] sev = "high" -> "block"

\* C15: the final action is the maximum, under allow < report <
\* verify-out-of-band < block, of the baseline of the final severity and the
\* action of every unique hit: never weaker than the baseline or than a hit
C15_ActionIsStrongest ==
    phase = "scored" =>
        LET cands == {Baseline(result.severity)}
                     \cup {result.hits[k].action : k \in 1..Len(result.hits)}
        IN  /\ result.action \in cands
            /\ \A a \in cands : ActRank(a) <= ActRank(result.action)

\* a result of medium severity that blocks because one of its hits does
C15_Witness ==
    /\ phase = "scored" /\ result.severity = "medium" /\ result.action = "block"
    /\ \E k \in 1..Len(result.hits) : result.hits[k].action = "block"

\* C16: scoring a list of hits with one more hit of severity high added gives a
\* final severity not lower than scoring the list alone, and a final action
\* not weaker than the action of the added hit
C16_HighHitNeverLowers ==
    (call.fn = "score_to_result" /\ call.done) =>
        /\ SevRank(call.ret.severity) >= SevRank(result.severity)
        /\ ActRank(call.ret.action) >= ActRank(call.arg.action)

\* the added hit replaced a hit of its rule id that weighed more, and raised
\* the severity
C16_Witness ==
    /\ call.fn = "score_to_result" /\ call.done
    /\ \E k \in 1..Len(hits) :
            hits[k].rule_id = call.arg.rule_id /\ hits[k].weight > call.arg.weight
    /\ call.ret.score < result.score
    /\ SevRank(call.ret.severity) > SevRank(result.severity)

\* C17: a message analyzed again on the same engine, the API answering the same
\* for the same domain, gives the result the first analysis gave, whatever the
\* reputation cache holds by then (nothing, the verdict, an expired verdict)
C17_SameMessageSameResult ==
    \A t \in Threads :
        (/\ call.fn = "analyze" /\ call.done
         /\ th[t].pc = "done" /\ th[t].mode = "analyze" /\ th[t].msg = call.arg)
            => th[t].res = call.ret

\* a message with two domains, one of them flagged, has been analyzed twice
\* with three requests in all: the cache answered for part of the second run
C17_Witness ==
    /\ call.fn = "analyze" /\ call.done /\ Len(call.arg.ctx.domains) = 2
    /\ HasReputationHit(call.ret)
    /\ th["t1"].pc = "done" /\ th["t1"].mode = "analyze" /\ th["t1"].msg = call.arg
    /\ netCalls = 3

\* the trigger of each artifact-based context rule
Triggers(rule_id, d) ==
    CASE rule_id = "CTX-URL-SHORTENER" -> is_shortener_domain(d)
      [] rule_id = "CTX-URL-PUNYCODE" -> is_punycode_domain(d)
      [] rule_id = "CTX-URL-SUBDOMAINS" -> subdomain_count(d) >= 5

ArtifactRuleIds == {"CTX-URL-SHORTENER", "CTX-URL-PUNYCODE", "CTX-URL-SUBDOMAINS"}

\* C18: whenever a domain extracted from the message is a known shortener host,
\* contains xn--, or has five or more labels, the hits of the analysis and its
\* result hold the hit of that context rule, also for text with zero-width
\* characters or mixed case
C18_TriggeredContextRuleHits ==
    (phase \in {"matched", "scored"} /\ ctx # NoneObj) =>
        \A id \in ArtifactRuleIds :
            (\E k \in 1..Len(ctx.domains) : Triggers(id, ctx.domains[k])) =>
                /\ HitsOfRule(hits, id) # <<>>
                /\ phase = "scored" => HitsOfRule(result.hits, id) # <<>>

\* the 0-based places where token tok stands in text t, compared without case
PlacesOf(t, tok) ==
    {i \in 0..(Len(t) - Len(tok)) : Lower(Slice(t, i, i + Len(tok))) = Lower(tok)}

\* C19: every context-rule hit carries exactly one evidence item: the span, in
\* the analyzed text, of the first extracted URL whose lowercase form occurs in
\* the normalized text, otherwise the span of the first triggering domain that
\* occurs in the normalized text; when neither occurs the rule emits no hit
C19_ContextEvidenceChoice ==
    (phase \in {"matched", "scored"} /\ ctx # NoneObj) =>
        \A id \in ArtifactRuleIds :
            LET hay == normalize_for_matching(text)
                doms == SelectSeq(ctx.domains, LAMBDA d : Triggers(id, d))
                u == FirstLocatable(hay, ctx.urls)
                d == FirstLocatable(hay, doms)
                mine == HitsOfRule(hits, id)
            IN  IF doms = <<>> \/ (u = 0 /\ d = 0) THEN mine = <<>>
                ELSE /\ Len(mine) = 1 /\ Len(mine[1].evidence) = 1
                     /\ LET ev == mine[1].evidence[1]
                            tok == IF u # 0 THEN ctx.urls[u] ELSE doms[d]
                        IN  /\ ev.label = IF u # 0 THEN "url" ELSE "domain"
                            /\ ev.end = ev.start + Len(tok)
                            /\ ev.start \in PlacesOf(text, tok)

\* (malicious, suspicious) of x is lexicographically at least that of y
LexGe(x, y) ==
    \/ x.malicious > y.malicious
    \/ x.malicious = y.malicious /\ x.suspicious >= y.suspicious

\* C20: when the reputation rule fires, its representative is a flagged domain
\* whose (malicious, suspicious) pair is lexicographically greatest among the
\* flagged domains, and the weight of the hit is 25 exactly when some flagged
\* domain has a malicious count above 0 and 18 otherwise; a domain with
\* malicious = 0 and suspicious = 0 is never flagged
C20_ReputationRepresentative ==
    \A t \in Threads :
        LET fl == th[t].flagged
        IN  /\ \A k \in 1..Len(fl) : fl[k].malicious > 0 \/ fl[k].suspicious > 0
            /\ (th[t].pc = "done" /\ th[t].mode = "analyze" /\ HasReputationHit(th[t].res)) =>
                    LET rep == HitsOfRule(th[t].res.hits, "CTX-URL-REPUTATION")[1]
                        top == TopFlagged(fl)
                    IN  /\ fl # <<>>
                        /\ \E k \in 1..Len(fl) : fl[k] = top
                        /\ \A k \in 1..Len(fl) : LexGe(top, fl[k])
                        /\ rep.weight =
                             IF \E k \in 1..Len(fl) : fl[k].malicious > 0 THEN 25 ELSE 18

\* two domains are flagged, the second one the worse, and the rule has fired
C20_Witness ==
    /\ th["t1"].pc = "done" /\ th["t1"].mode = "analyze"
    /\ HasReputationHit(th["t1"].res)
    /\ Len(th["t1"].flagged) = 2
    /\ th["t1"].flagged[1].malicious = 0 /\ th["t1"].flagged[2].malicious = 1

\* the (start, end, rule id) triples among the evidence of a list of hits
SpanTriples(hs) ==
    UNION {{<<hs[k].evidence[j].start, hs[k].evidence[j].end, hs[k].rule_id>> :
                j \in 1..Len(hs[k].evidence)} : k \in 1..Len(hs)}

\* C21: the highlights of a result are exactly one highlight per distinct
\* (start, end, rule id) triple among the evidence of its unique hits, and no
\* other, ordered by (start, end) ascending
C21_HighlightsDedupSorted ==
    phase = "scored" =>
        LET hl == result.highlights
        IN  /\ {<<hl[k].start, hl[k].end, hl[k].rule_id>> : k \in 1..Len(hl)}
                    = SpanTriples(result.hits)
            /\ Len(hl) = Cardinality(SpanTriples(result.hits))
            /\ \A i, j \in 1..Len(hl) :
                    i < j => \/ hl[i].start < hl[j].start
                             \/ hl[i].start = hl[j].start /\ hl[i].end <= hl[j].end

\* a hit whose evidence repeats a span, scored: fewer highlights than evidence
C21_Witness ==
    /\ phase = "scored" /\ Len(result.hits) = 1
    /\ Len(result.highlights) >= 2
    /\ Len(result.highlights) < Len(result.hits[1].evidence)

\* C22: in a loaded engine no two rules have the same id and none has the id
\* of a built-in context rule, so match never returns two hits of one rule id
C22_RuleIdsUnique ==
    (phase \in {"loaded", "matched"} /\ engine # NoneObj) =>
        /\ \A j, k \in 1..Len(engine._rules) :
                engine._rules[j].id = engine._rules[k].id => j = k
        /\ \A k \in 1..Len(engine._rules) :
                engine._rules[k].id \notin ArtifactRuleIds \cup {"CTX-URL-REPUTATION"}
        /\ phase = "matched" =>
                \A j, k \in 1..Len(hits) : hits[j].rule_id = hits[k].rule_id => j = k

\* what an extraction compares and returns for one match
NormalOf(fn, m) ==
    CASE fn = "extract_urls" -> _clean_url(m)
      [] fn = "extract_domains" -> domain_from_url(m)
      [] fn = "extract_emails" -> Lower(m)
      [] fn = "extract_phones" -> _normalize_phone(Strip(m))

\* 1-based place of the first match whose normal form is x
FirstAt(fn, ms, x) ==
    CHOOSE k \in 1..Len(ms) :
        /\ NormalOf(fn, ms[k]) = x
        /\ \A j \in 1..(k - 1) : NormalOf(fn, ms[j]) # x

\* C23: each of the four extractions returns every non-empty normal form of its
\* input once, in the order of first appearance; emails are returned
\* lowercased, phones as an optional "+" and digits
C23_ExtractUniqueInOrder ==
    (call.fn \in ExtractFns /\ call.done) =>
        LET out == call.ret
            ms == call.arg
        IN  /\ \A i, j \in 1..Len(out) : out[i] = out[j] => i = j
            /\ {out[i] : i \in 1..Len(out)}
                    = {NormalOf(call.fn, ms[k]) : k \in 1..Len(ms)} \ {<<>>}
            /\ \A i, j \in 1..Len(out) :
                    i < j => FirstAt(call.fn, ms, out[i]) < FirstAt(call.fn, ms, out[j])
            /\ call.fn = "extract_emails" =>
                    \A i \in 1..Len(out) : \A k \in 1..Len(out[i]) : out[i][k] # "A"
            /\ call.fn = "extract_phones" =>
                    \A i \in 1..Len(out) : \A k \in 1..Len(out[i]) :
                        out[i][k] \in Digits \/ (k = 1 /\ out[i][k] = "+")

\* three email matches, the third the first one in another case: two returned
C23_Witness ==
    /\ call.fn = "extract_emails" /\ call.done
    /\ Len(call.arg) = 3 /\ Len(call.ret) = 2
    /\ call.arg[1] # call.arg[3] /\ call.ret[1] = Lower(call.arg[3])
    /\ call.arg[2] = call.ret[2]

\* C27: cleaning a cleaned URL returns it unchanged, and no cleaned URL ends
\* with a sentence-punctuation or a wrapping character
C27_CleanUrlIdempotent ==
    (call.fn = "_clean_url" /\ call.done /\ call.ret # <<>>) =>
        /\ _clean_url(call.ret) = call.ret
        /\ call.ret[Len(call.ret)] \notin _TRAILING_PUNCT \cup _WRAPPING_CHARS

\* C24: the hit of a rule of match mode all carries one evidence item for each
\* of the rule's patterns, in pattern order, each the first match of its pattern
C24_AllModeOneEvidencePerPattern ==
    phase \in {"matched", "scored"} =>
        \A r \in 1..Len(engine._compiled) :
            LET cr == engine._compiled[r]
                mine == HitsOfRule(hits, cr.rule.id)
                first(p) == _match_one(cr.patterns[p], text, normalize_for_matching(text))
            IN  (cr.match_mode = "all" /\ mine # <<>>) =>
                    /\ Len(mine) = 1
                    /\ Len(mine[1].evidence) = Len(cr.patterns)
                    /\ \A p \in 1..Min(Len(cr.patterns), Len(mine[1].evidence)) :
                            first(p) # <<>> /\ mine[1].evidence[p] = first(p)[1]

\* the text under an evidence span holds domain d, compared without case
CoversDomain(t, ev, d) == PlacesOf(Slice(t, ev.start, ev.end), d) # {}

\* C25: the evidence span of every context-rule hit covers a domain that
\* satisfies the rule's trigger; for the reputation rule, the representative
\* flagged domain
C25_ContextEvidenceProvesTrigger ==
    /\ (phase \in {"matched", "scored"} /\ ctx # NoneObj) =>
            \A h \in 1..Len(hits) :
                hits[h].rule_id \in ArtifactRuleIds =>
                    \A e \in 1..Len(hits[h].evidence) :
                        \E k \in 1..Len(ctx.domains) :
                            /\ Triggers(hits[h].rule_id, ctx.domains[k])
                            /\ CoversDomain(text, hits[h].evidence[e], ctx.domains[k])
    /\ \A t \in Threads :
            (th[t].pc = "done" /\ th[t].mode = "analyze" /\ HasReputationHit(th[t].res)) =>
                LET rep == HitsOfRule(th[t].res.hits, "CTX-URL-REPUTATION")[1]
                IN  \A e \in 1..Len(rep.evidence) :
                        CoversDomain(th[t].msg.text, rep.evidence[e],
                                     TopFlagged(th[t].flagged).domain)

\* C26: after any sequence of gets and sets a TTLCache holds at most max_items
\* entries, no key twice, and right after set(k, v) key k is present with
\* value v and expiry now + ttl
C26_CacheBoundedAndSetKept ==
    (call.fn \in {"get", "set"} /\ call.done) =>
        /\ Len(cache) <= call.self.max_items
        /\ \A i, j \in 1..Len(cache) : cache[i].key = cache[j].key => i = j
        /\ call.fn = "set" =>
                \E i \in 1..Len(cache) :
                    cache[i] = _Entry(call.arg[1], call.arg[2], call.at + call.self.ttl)

\* a set on a full cache, of a key the purge has dropped: the key is back
C26_Witness ==
    /\ call.fn = "set" /\ call.done /\ call.arg[1] = Key(1)
    /\ Len(cache) = call.self.max_items \div 2 + 1
    /\ cache[Len(cache)].key = Key(1)
    /\ cache[1].key = Key(26)

====
